---- MODULE Spec2Model ----
(***************************************************************************)
(* Model of the jsonpath Decoder (src/decoder.go, src/path.go): a          *)
(* json.Decoder extended with a path stack and a context, and the          *)
(* operations Token, Decode, SeekTo, Path and Scan built on it.            *)
(*                                                                         *)
(* A document is a JSON value tree.  Flat turns it into the token sequence *)
(* the embedded json.Decoder produces; every token is annotated, from the  *)
(* tree alone, with its nesting location, its role and the extent of the   *)
(* value it starts.  The operations read only the token kinds and texts;   *)
(* the annotations are what the properties compare the tracker against.    *)
(***************************************************************************)
EXTENDS Integers, Sequences, FiniteSets, TLC

\* Largest number of calls that consume no token in one behaviour.
MaxIdle == 1
\* Deepest nesting of Scan calls (a callback calling Scan again).
MaxScanDepth == 1
\* Longest callback log one Scan keeps.
MaxFires == 3
\* Most calls made from inside callbacks in one behaviour.
MaxCbCalls == 2

-----------------------------------------------------------------------------
(* Path segments: src/path.go JsonPath []interface{} of string | int.      *)

Key(s) == [kind |-> "key", key |-> s, idx |-> 0]
Idx(i) == [kind |-> "idx", key |-> "", idx |-> i]

\* jsonContext: none, objKey, objValue, arrValue
none == "none"
objKey == "objKey"
objValue == "objValue"
arrValue == "arrValue"

push(p, n) == Append(p, n)
pop(p) == SubSeq(p, 1, Len(p) - 1)
incTop(p) == [p EXCEPT ![Len(p)] = Idx(@.idx + 1)]
nameTop(p, n) == [p EXCEPT ![Len(p)] = Key(n)]

\* The slice operations above panic in Go outside these conditions.
CanPop(p) == Len(p) > 0
CanIncTop(p) == Len(p) > 0 /\ p[Len(p)].kind = "idx"
CanNameTop(p) == Len(p) > 0

inferContext(p) ==
  IF Len(p) = 0 THEN none
  ELSE IF p[Len(p)].kind = "key" THEN objKey ELSE arrValue

Equal(p, o) ==
  IF Len(p) # Len(o) THEN FALSE
  ELSE \A i \in 1..Len(p) : p[i] = o[i]

-----------------------------------------------------------------------------
(* Documents as value trees.                                               *)

Prim(k, s) == [k |-> k, s |-> s, els |-> <<>>]
Num(s) == Prim("num", s)
Str(s) == Prim("str", s)
Bool(s) == Prim("bool", s)
Null == Prim("null", "null")
Bad == Prim("bad", "x")
Arr(els) == [k |-> "arr", s |-> "", els |-> els]
Obj(mems) == [k |-> "obj", s |-> "", els |-> mems]
Mem(key, val) == [key |-> key, val |-> val]

Docs ==
  << Arr(<<Num("1"), Num("2"), Num("3")>>),
     Arr(<<>>),
     Obj(<<Mem("a", Arr(<<Num("0"), Obj(<<Mem("v", Num("35"))>>)>>))>>),
     Arr(<<Obj(<<Mem("Space", Str("YCbCr"))>>), Obj(<<Mem("Space", Str("RGB"))>>)>>),
     Obj(<<Mem("", Num("5"))>>),
     Obj(<<Mem("a", Str("a")), Mem("b", Obj(<<Mem("a", Null)>>))>>),
     Arr(<<Arr(<<>>), Bool("true"), Str("s")>>),
     Obj(<<Mem("a", Arr(<<>>)), Mem("b", Arr(<<Num("1")>>))>>),
     Arr(<<Num("1"), Bad>>),
     Num("7") >>

Tk(t, s, role, loc, vlen, vloc, n) ==
  [t |-> t, s |-> s, role |-> role, loc |-> loc, vlen |-> vlen, vloc |-> vloc, n |-> n]

NoTok == Tk("none", "", "", <<>>, 0, <<>>, 0)

RECURSIVE Flat(_, _), FlatElems(_, _, _), FlatMems(_, _, _)

\* The tokens of value v whose own location is encl: every token carries
\* the location it leaves the reader at, its role, and, on the first token
\* of a value, the number of tokens of the value and the value's location.
Flat(v, encl) ==
  IF v.k = "arr" THEN
    LET body == FlatElems(v.els, 1, encl) IN
      <<Tk("[", "", "val", encl \o <<Idx(-1)>>, Len(body) + 2, encl, Len(v.els))>>
      \o body \o <<Tk("]", "", "end", encl, 0, encl, 0)>>
  ELSE IF v.k = "obj" THEN
    LET body == FlatMems(v.els, 1, encl) IN
      <<Tk("{", "", "val", encl \o <<Key("")>>, Len(body) + 2, encl, Len(v.els))>>
      \o body \o <<Tk("}", "", "end", encl, 0, encl, 0)>>
  ELSE <<Tk(v.k, v.s, "val", encl, 1, encl, 0)>>

FlatElems(els, i, encl) ==
  IF i > Len(els) THEN <<>>
  ELSE Flat(els[i], encl \o <<Idx(i - 1)>>) \o FlatElems(els, i + 1, encl)

FlatMems(mems, i, encl) ==
  IF i > Len(mems) THEN <<>>
  ELSE <<Tk("str", mems[i].key, "key", encl \o <<Key(mems[i].key)>>, 0, encl, 0)>>
       \o Flat(mems[i].val, encl \o <<Key(mems[i].key)>>)
       \o FlatMems(mems, i + 1, encl)

AllToks == [i \in 1..Len(Docs) |-> Flat(Docs[i], <<>>)]

WellFormed(i) == \A j \in 1..Len(AllToks[i]) : AllToks[i][j].t # "bad"

\* Targets a caller may seek in document i: every value's location, one
\* past the end of every array, and in an object at the root the empty key
\* and a key that does not occur.
TargetsOf(i) ==
  LET T == AllToks[i] IN
    {T[j].vloc : j \in {x \in 1..Len(T) : T[x].vlen > 0}}
    \cup {T[j].vloc \o <<Idx(T[j].n)>> : j \in {x \in 1..Len(T) : T[x].t = "["}}
    \cup {<<Key(k)>> : k \in IF T[1].t = "{" THEN {"", "zz"} ELSE {}}

AllTargets == [i \in 1..Len(Docs) |-> TargetsOf(i)]

-----------------------------------------------------------------------------
(* State.                                                                  *)

VARIABLES
  doc,      \* index in Docs of the document behind the io.Reader
  pos,      \* json.Decoder: number of tokens already consumed
  derr,     \* json.Decoder: its sticky error (dec.err), "nil" when unset
  path,     \* Decoder.path
  context,  \* Decoder.context
  panic,    \* TRUE once a path operation has panicked
  arg,      \* the caller's retained []interface{} last passed as path...
  ret,      \* what the most recent call returned
  prev,     \* what the call before it returned
  scans,    \* the Scan calls in progress, innermost last
  snap,     \* the Path() result the caller holds
  idle,     \* calls so far that consumed no token
  cbcalls,  \* calls so far made from inside callbacks
  via       \* "token" while the stream was consumed through Token() only

vars == <<doc, pos, derr, path, context, panic, arg, ret, prev, scans, snap, idle, cbcalls, via>>

Toks == AllToks[doc]

\* The Decoder struct: the embedded json.Decoder (pos, derr), path, context.
W == [pos |-> pos, derr |-> derr, path |-> path, context |-> context, panic |-> panic]

-----------------------------------------------------------------------------
(* The embedded encoding/json Decoder, as the methods used here behave.    *)

Delims == {"{", "}", "[", "]"}

Res(w, t, err, key) == [w |-> w, t |-> t, err |-> err, key |-> key]

\* json.Decoder.Token: delimiters are read directly; every other token is
\* read through json.Decoder.Decode, which first returns a sticky error.
SrcTokenAt(w, tk) ==
  IF tk.t \in Delims THEN Res([w EXCEPT !.pos = @ + 1], tk, "nil", FALSE)
  ELSE IF w.derr # "nil" THEN Res(w, NoTok, w.derr, FALSE)
  ELSE IF tk.t = "bad" THEN Res([w EXCEPT !.derr = "invalid-char"], NoTok, "invalid-char", FALSE)
  ELSE Res([w EXCEPT !.pos = @ + 1], tk, "nil", FALSE)

SrcToken(w) ==
  IF w.pos >= Len(Toks) THEN Res(w, NoTok, "EOF", FALSE)
  ELSE SrcTokenAt(w, Toks[w.pos + 1])

\* json.Decoder.Decode: consumes one whole value when positioned at one.
SrcDecodeAt(w, tk) ==
  IF tk.role = "key" \/ tk.t = "}" THEN Res(w, NoTok, "not-value", FALSE)
  ELSE IF tk.t = "]" THEN
    IF Toks[w.pos].t = "[" THEN Res([w EXCEPT !.derr = "invalid-char"], NoTok, "invalid-char", FALSE)
    ELSE Res(w, NoTok, "not-value", FALSE)
  ELSE IF \E j \in (w.pos + 1)..(w.pos + tk.vlen) : Toks[j].t = "bad"
    THEN Res([w EXCEPT !.derr = "invalid-char"], NoTok, "invalid-char", FALSE)
  ELSE Res([w EXCEPT !.pos = @ + tk.vlen], tk, "nil", FALSE)

SrcDecode(w) ==
  IF w.derr # "nil" THEN Res(w, NoTok, w.derr, FALSE)
  ELSE IF w.pos >= Len(Toks) THEN Res([w EXCEPT !.derr = "EOF"], NoTok, "EOF", FALSE)
  ELSE SrcDecodeAt(w, Toks[w.pos + 1])

\* json.Decoder.More: the next byte exists and closes nothing.
SrcMore(w) == w.pos < Len(Toks) /\ Toks[w.pos + 1].t \notin {"]", "}"}

-----------------------------------------------------------------------------
(* The Decoder's own operations.                                           *)

IncTopW(w) ==
  IF CanIncTop(w.path) THEN [w EXCEPT !.path = incTop(w.path)]
  ELSE [w EXCEPT !.panic = TRUE]

\* PopW leaving the context of the closed container.
PopWKeepsContext(w) ==
  IF CanPop(w.path) THEN [w EXCEPT !.path = pop(w.path)]
  ELSE [w EXCEPT !.panic = TRUE]

PopW(w) ==
  IF CanPop(w.path)
  THEN [w EXCEPT !.path = pop(w.path), !.context = inferContext(pop(w.path))]
  ELSE [w EXCEPT !.panic = TRUE]

NameTopW(w, n) ==
  IF CanNameTop(w.path) THEN [w EXCEPT !.path = nameTop(w.path, n), !.context = objValue]
  ELSE [w EXCEPT !.panic = TRUE]

\* DecodeSwitch leaving the context at objValue.
DecodeSwitchKeepsContext(w) ==
  CASE w.context = arrValue -> IncTopW(w)
    [] OTHER -> w

\* DecodeSwitch leaving the array index alone.
DecodeSwitchNoInc(w) ==
  CASE w.context = objValue -> [w EXCEPT !.context = objKey]
    [] OTHER -> w

\* Decode, lines 66-73: the bookkeeping done before the value is read.
DecodeSwitch(w) ==
  CASE w.context = objValue -> [w EXCEPT !.context = objKey]
    [] w.context = arrValue -> IncTopW(w)
    [] OTHER -> w

\* Decode, line 74, after the bookkeeping left the Decoder as b.
DecodeRead(b) ==
  IF b.panic THEN Res(b, NoTok, "panic", FALSE) ELSE SrcDecode(b)

Decode(w) == DecodeRead(DecodeSwitch(w))

\* Token, lines 94-104: a null token.
TokenNil(w) ==
  CASE w.context = objValue -> [w EXCEPT !.context = objKey]
    [] w.context = arrValue -> IncTopW(w)
    [] OTHER -> w

\* d.path.push(n); d.context = c
Opened(w, n, c) == [w EXCEPT !.path = push(w.path, n), !.context = c]

\* TokenDelim opening a container in an array without advancing the index.
TokenDelimNoInc(w, t) ==
  CASE t = "{" -> Opened(w, Key(""), objKey)
    [] t = "}" -> PopW(w)
    [] t = "[" -> Opened(w, Idx(-1), arrValue)
    [] t = "]" -> PopW(w)

\* Token, lines 107-131: a delimiter.
TokenDelim(w, t) ==
  CASE t = "{" -> Opened(IF w.context = arrValue THEN IncTopW(w) ELSE w, Key(""), objKey)
    [] t = "}" -> PopW(w)
    [] t = "[" -> Opened(IF w.context = arrValue THEN IncTopW(w) ELSE w, Idx(-1), arrValue)
    [] t = "]" -> PopW(w)

\* Token, lines 132-141: float64, json.Number, bool.
TokenPrim(w) ==
  CASE w.context = objValue -> [w EXCEPT !.context = objKey]
    [] w.context = arrValue -> IncTopW(w)
    [] OTHER -> w

\* Token, lines 142-153: a string; the result says whether it is a KeyString.
TokenString(w, s) ==
  CASE w.context = objKey -> [w |-> NameTopW(w, s), key |-> TRUE]
    [] w.context = objValue -> [w |-> [w EXCEPT !.context = objKey], key |-> FALSE]
    [] w.context = arrValue -> [w |-> IncTopW(w), key |-> FALSE]
    [] OTHER -> [w |-> w, key |-> FALSE]

TokenStringRes(x, t) == Res(x.w, t, "nil", x.key)

\* TokenAfter testing t == nil before err != nil.
TokenAfterNilFirst(r) ==
  IF r.err # "nil" THEN Res(TokenNil(r.w), r.t, r.err, FALSE)
  ELSE IF r.t.t = "null" THEN Res(TokenNil(r.w), r.t, "nil", FALSE)
  ELSE IF r.t.t \in Delims THEN Res(TokenDelim(r.w, r.t.t), r.t, "nil", FALSE)
  ELSE IF r.t.t \in {"num", "bool"} THEN Res(TokenPrim(r.w), r.t, "nil", FALSE)
  ELSE TokenStringRes(TokenString(r.w, r.t.s), r.t)

\* Token, lines 90-156, r being what d.Decoder.Token() returned.
TokenAfter(r) ==
  IF r.err # "nil" THEN r
  ELSE IF r.t.t = "null" THEN Res(TokenNil(r.w), r.t, "nil", FALSE)
  ELSE IF r.t.t \in Delims THEN Res(TokenDelim(r.w, r.t.t), r.t, "nil", FALSE)
  ELSE IF r.t.t \in {"num", "bool"} THEN Res(TokenPrim(r.w), r.t, "nil", FALSE)
  ELSE TokenStringRes(TokenString(r.w, r.t.s), r.t)

Token(w) == TokenAfter(SrcToken(w))

\* SeekTo, lines 45-48: the comparison target, written into the caller's slice.
SeekTarget(p) ==
  IF p[Len(p)].kind = "idx" THEN [p EXCEPT ![Len(p)] = Idx(@.idx - 1)] ELSE p

SeekRes(w, found, err, src) == [w |-> w, found |-> found, err |-> err, src |-> src]

RECURSIVE SeekLoop(_, _)

\* SeekNext returning end-of-stream as the error.
SeekNextEOFError(r, target) ==
  IF r.err # "nil" THEN SeekRes(r.w, FALSE, r.err, r.err)
  ELSE IF r.w.panic THEN SeekRes(r.w, FALSE, "panic", "nil")
  ELSE SeekLoop(r.w, target)

\* SeekTo, lines 54-59, r being what w.Token() returned; src is that error.
SeekNext(r, target) ==
  IF r.err = "EOF" THEN SeekRes(r.w, FALSE, "nil", "EOF")
  ELSE IF r.err # "nil" THEN SeekRes(r.w, FALSE, r.err, r.err)
  ELSE IF r.w.panic THEN SeekRes(r.w, FALSE, "panic", "nil")
  ELSE SeekLoop(r.w, target)

\* SeekTo, lines 50-60.
SeekLoop(w, target) ==
  IF Equal(w.path, target) THEN SeekRes(w, TRUE, "nil", "nil")
  ELSE SeekNext(Token(w), target)

\* SeekTo entering its loop with a zero-length target as well.
SeekToEmptyLoops(w, p) ==
  IF Len(p) = 0 THEN SeekLoop(w, p)
  ELSE SeekLoop(w, SeekTarget(p))

\* SeekTo, lines 42-60.
SeekTo(w, p) ==
  IF Len(p) = 0 THEN SeekRes(w, Len(w.path) = 0, "nil", "nil")
  ELSE SeekLoop(w, SeekTarget(p))

\* A slice as a caller sees it: its cells, and whether its storage is its
\* own or the storage of the Decoder's path.
Slice(own, cells) == [own |-> own, cells |-> cells]

\* Path returning d.path itself.
PathShared(w) == Slice(FALSE, w.path)

\* Path, lines 79-83: make gives the result its own storage, copy fills it.
Path(w) == Slice(TRUE, [i \in 1..Len(w.path) |-> w.path[i]])

\* What the slice s holds once the Decoder's path has become p: push,
\* incTop and nameTop write the cells of the path's storage, and a slice
\* sharing that storage reads them.
Through(s, p) ==
  IF s.own THEN s
  ELSE [s EXCEPT !.cells = [i \in 1..Len(@) |-> IF i <= Len(p) THEN p[i] ELSE @[i]]]

-----------------------------------------------------------------------------
(* Scan and the registered patterns.                                       *)

AnyIndex == [kind |-> "anyidx", key |-> "", idx |-> 0]

\* The PathActions a caller may register: each a set of patterns, every
\* pattern carrying a callback.
PatSets ==
  << {<<AnyIndex>>},
     {<<Idx(1)>>},
     {<<Key("a")>>} >>

SegMatch(m, seg) ==
  IF m.kind = "anyidx" THEN seg.kind = "idx" ELSE m = seg

\* node.match(relPath) finds a node and the node carries an action.
Matches(ps, rel) ==
  \E pt \in PatSets[ps] :
    /\ Len(pt) = Len(rel)
    /\ \A i \in 1..Len(pt) : SegMatch(pt[i], rel[i])

\* Scan, lines 161-165.
ScanRootOf(rootPath) ==
  IF inferContext(rootPath) = arrValue THEN incTop(rootPath) ELSE rootPath

ScanRoot(w) == ScanRootOf(Path(w).cells)

\* Scan, lines 162-165, as they leave the Decoder: rootPath.incTop() writes
\* the storage of rootPath, which Path() made.
ScanEnter(w) ==
  IF Path(w).own \/ inferContext(w.path) # arrValue THEN w ELSE IncTopW(w)

Frame(root, ps, w) ==
  [root |-> root, pats |-> ps, matched |-> FALSE, pc |-> "loop",
   cur |-> <<>>, fires |-> <<>>, over |-> FALSE, stray |-> FALSE, pre |-> w]

\* The first Len(r) segments of p are r.
Prefix(r, p) == Len(r) <= Len(p) /\ Equal(r, SubSeq(p, 1, Len(r)))

\* The frame once relPath = path[len(rootPath):] was looked up (lines
\* 180-185): stray records a lookup of a path the root is no prefix of.
Looked(f, p) == [f EXCEPT !.stray = @ \/ ~Prefix(f.root, p)]

Fire(w) == [pos |-> w.pos, path |-> w.path, ops |-> <<>>]

\* The frame once node.action(d) has been entered (lines 187-188).
Invoked(f, w) ==
  [f EXCEPT !.matched = TRUE, !.pc = "cb", !.cur = <<>>,
            !.fires = IF Len(@) < MaxFires THEN Append(@, Fire(w)) ELSE @,
            !.over = (Len(f.fires) >= MaxFires)]

ScanRes(w, f, done, err) == [w |-> w, f |-> f, done |-> done, err |-> err]

RECURSIVE ScanLoop(_, _)

\* Scan, lines 174-193, with p the snapshot d.Path() taken at line 174.
ScanMatchAt(w, f, p) ==
  IF Len(p) > Len(f.root) THEN
    IF Matches(f.pats, SubSeq(p, Len(f.root) + 1, Len(p)))
    THEN ScanRes(w, Invoked(Looked(f, p), w), FALSE, "nil")
    ELSE ScanLoop(w, Looked(f, p))
  ELSE ScanRes(w, f, TRUE, "nil")

\* Scan from the label match (lines 173-193) up to the next callback or return.
ScanMatch(w, f) == ScanMatchAt(w, f, Path(w).cells)

\* Scan, lines 169-173, r being what d.Token() returned.
ScanNext(r, f) ==
  IF r.err # "nil" THEN ScanRes(r.w, f, TRUE, r.err)
  ELSE IF r.w.panic THEN ScanRes(r.w, f, TRUE, "panic")
  ELSE ScanMatch(r.w, f)

\* Scan from the top of its loop (lines 167-171).
ScanLoop(w, f) == ScanNext(Token(w), f)

\* Scan after node.action(d) returned (lines 189-191).
ScanResume(w, f) ==
  IF w.context = arrValue /\ SrcMore(w) THEN ScanMatch(w, f) ELSE ScanLoop(w, f)

-----------------------------------------------------------------------------
(* Behaviours: a caller, and the callbacks Scan invokes, call the Decoder. *)

W0 == [pos |-> 0, derr |-> "nil", path |-> <<>>, context |-> none, panic |-> FALSE]

NoRet ==
  [op |-> "none", target |-> <<>>, reuse |-> FALSE, found |-> FALSE, err |-> "nil",
   src |-> "nil", pre |-> W0, tok |-> NoTok, key |-> FALSE,
   root |-> <<>>, pats |-> 0, fires |-> <<>>, over |-> FALSE, stray |-> FALSE,
   depth |-> 0]

\* What is remembered of the call before the last one.
Brief(r) ==
  [op |-> r.op, target |-> r.target, reuse |-> r.reuse, found |-> r.found,
   err |-> r.err, pos0 |-> r.pre.pos]

\* The caller's variable for a Path() result: held once Path() was called,
\* at the cells it had when the caller last assigned them.
NoSnap == [held |-> FALSE, wrote |-> FALSE, s |-> Slice(TRUE, <<>>), at |-> <<>>]

Init ==
  /\ doc \in 1..Len(Docs)
  /\ pos = 0
  /\ derr = "nil"
  /\ path = <<>>
  /\ context = none
  /\ panic = FALSE
  /\ arg = <<>>
  /\ ret = NoRet
  /\ prev = Brief(NoRet)
  /\ scans = <<>>
  /\ snap = NoSnap
  /\ idle = 0
  /\ cbcalls = 0
  /\ via = "token"

SetW(w) ==
  /\ pos' = w.pos
  /\ derr' = w.derr
  /\ path' = w.path
  /\ context' = w.context
  /\ panic' = w.panic
  /\ snap' = [snap EXCEPT !.s = Through(@, w.path)]

InCallback == scans # <<>> /\ scans[Len(scans)].pc = "cb"

\* Control is with the caller, or with a callback that has calls left.
Callable ==
  /\ ~panic
  /\ \/ scans = <<>>
     \/ InCallback /\ cbcalls < MaxCbCalls

\* The frames after the running callback (if any) made the call op.
Noted(op) ==
  IF scans = <<>> THEN scans
  ELSE [scans EXCEPT ![Len(scans)].cur = Append(@, op)]

\* A call that consumes nothing uses up one of the idle calls.
Budget(w) ==
  /\ IF w.pos > pos THEN idle' = idle
     ELSE idle < MaxIdle /\ idle' = idle + 1
  /\ cbcalls' = IF scans = <<>> THEN cbcalls ELSE cbcalls + 1

\* A call returns r, unless a path operation panicked inside it.
Returned(r, w) ==
  /\ ret' = IF w.panic THEN [NoRet EXCEPT !.op = "panic"] ELSE r
  /\ prev' = Brief(ret)

\* The call left the Decoder as w and returns ret.
Done(w, r) ==
  /\ SetW(w)
  /\ Budget(w)
  /\ Returned(r, w)

TokenRet(r) ==
  [NoRet EXCEPT !.op = "Token", !.err = r.err, !.src = r.err,
                !.tok = r.t, !.key = r.key, !.pre = W]

TokenDone(r) == Done(r.w, TokenRet(r))

CallToken ==
  /\ Callable
  /\ TokenDone(Token(W))
  /\ scans' = Noted("Token")
  /\ UNCHANGED <<doc, arg, via>>

DecodeRet(r) ==
  [NoRet EXCEPT !.op = "Decode", !.err = r.err, !.src = r.err, !.tok = r.t, !.pre = W]

DecodeDone(r) == Done(r.w, DecodeRet(r))

CallDecode ==
  /\ Callable
  /\ DecodeDone(Decode(W))
  /\ scans' = Noted("Decode")
  /\ via' = "mixed"
  /\ UNCHANGED <<doc, arg>>

\* SeekTo(p...) with the slice p: a fresh one built from literal arguments
\* (reuse = FALSE) or the one the caller kept from its last call.
SeekRet(r, p, reuse) ==
  [NoRet EXCEPT !.op = "SeekTo", !.target = p, !.reuse = reuse,
                !.found = r.found, !.err = r.err, !.src = r.src, !.pre = W]

SeekDone(r, p, reuse) == Done(r.w, SeekRet(r, p, reuse))

CallSeekTo(p, reuse) ==
  /\ Callable
  /\ SeekDone(SeekTo(W, p), p, reuse)
  /\ arg' = IF Len(p) = 0 THEN p ELSE SeekTarget(p)
  /\ scans' = Noted("SeekTo")
  /\ via' = "mixed"
  /\ UNCHANGED doc

CallSeekToFresh == \E p \in AllTargets[doc] : CallSeekTo(p, FALSE)

CallSeekToKept == arg # <<>> /\ CallSeekTo(arg, TRUE)

ScanRet(r) ==
  [NoRet EXCEPT !.op = "Scan", !.found = r.f.matched, !.err = r.err, !.src = r.err,
                !.pre = r.f.pre, !.root = r.f.root, !.pats = r.f.pats,
                !.fires = r.f.fires, !.over = r.f.over, !.stray = r.f.stray,
                !.depth = Len(scans)]

\* No call has returned since Scan last took control.
Running == [NoRet EXCEPT !.op = "ScanRunning"]

\* Scan has run to r: it has returned, or it is inside a callback; outer
\* are the Scan calls around it.
ScanGoes(r, outer) ==
  /\ SetW(r.w)
  /\ IF r.done
     THEN Returned([ScanRet(r) EXCEPT !.depth = Len(outer)], r.w) /\ scans' = outer
     ELSE Returned(Running, r.w) /\ scans' = Append(outer, r.f)

ScanStarts(r) ==
  /\ Budget(r.w)
  /\ ScanGoes(r, Noted("Scan"))

CallScan(ps) ==
  /\ Callable
  /\ Len(scans) < MaxScanDepth
  /\ ScanStarts(ScanLoop(ScanEnter(W), Frame(ScanRoot(W), ps, W)))
  /\ via' = "mixed"
  /\ UNCHANGED <<doc, arg>>

CallScanAny == \E ps \in 1..Len(PatSets) : CallScan(ps)

\* The frame f once its callback has returned, the callback's calls logged.
Resumed(f) ==
  [f EXCEPT !.pc = "loop",
            !.fires = IF f.over THEN @ ELSE [@ EXCEPT ![Len(@)].ops = f.cur]]

\* The running callback returns and its Scan goes on.
CbReturn ==
  /\ ~panic
  /\ InCallback
  /\ ScanGoes(ScanResume(W, Resumed(scans[Len(scans)])), SubSeq(scans, 1, Len(scans) - 1))
  /\ UNCHANGED <<doc, arg, idle, cbcalls, via>>

\* p := d.Path(), by the caller of the Decoder outside any callback.
CallPath ==
  /\ Callable
  /\ scans = <<>>
  /\ ~snap.held
  /\ snap' = [held |-> TRUE, wrote |-> FALSE, s |-> Path(W), at |-> Path(W).cells]
  /\ idle < MaxIdle
  /\ idle' = idle + 1
  /\ UNCHANGED <<doc, pos, derr, path, context, panic, arg, ret, prev, scans, cbcalls, via>>

\* The segment a caller stores into a snapshot.
Scribble == Key("w")

\* p[len(p)-1] = "w" by the caller, on the snapshot it holds.
SnapWrite ==
  /\ Callable
  /\ scans = <<>>
  /\ snap.held /\ ~snap.wrote /\ Len(snap.s.cells) > 0
  /\ snap' = [snap EXCEPT !.wrote = TRUE,
                           !.s.cells[Len(snap.s.cells)] = Scribble,
                           !.at[Len(snap.s.cells)] = Scribble]
  /\ path' = IF snap.s.own \/ Len(path) < Len(snap.s.cells) THEN path
             ELSE [path EXCEPT ![Len(snap.s.cells)] = Scribble]
  /\ UNCHANGED <<doc, pos, derr, context, panic, arg, ret, prev, scans, idle, cbcalls, via>>

Next ==
  \/ CallPath
  \/ SnapWrite
  \/ CallToken
  \/ CallDecode
  \/ CallSeekToFresh
  \/ CallSeekToKept
  \/ CallScanAny
  \/ CbReturn

Spec == Init /\ [][Next]_vars

-----------------------------------------------------------------------------
(* Properties.                                                             *)

\* The json.Decoder holds no sticky syntax error.
Healthy(w) == w.derr \in {"nil", "EOF"}

\* Token j is the first token of the value located at p.
Locates(p, j) == Toks[j].vlen > 0 /\ Toks[j].vloc = p

ValueStarts == {j \in 1..Len(Toks) : Toks[j].vlen > 0}

RECURSIVE TokenN(_, _)
\* The Decoder after n calls of Token().
TokenN(w, n) == IF n = 0 THEN w ELSE TokenN(Token(w).w, n - 1)

\* C1: on a well-formed document consumed only through Token(), after each
\* successful Token() the path is the nesting location of the token returned:
\* one segment per enclosing container, "" or the last key read for an
\* object, -1 or the element's index for an array, a closed container's
\* segment removed.
C1_TokenPath ==
  (ret.op = "Token" /\ ret.err = "nil" /\ via = "token" /\ WellFormed(doc))
    => path = ret.tok.loc

C1_Witness ==
  /\ ret.op = "Token" /\ ret.err = "nil" /\ via = "token" /\ WellFormed(doc)
  /\ ret.tok.t = "num" /\ Len(path) = 3

\* C2: on a well-formed document, SeekTo(p) for a value at p that the
\* tracker has not reached returns (true, nil) positioned right before the
\* value's first token, and a Decode that follows consumes exactly that value.
C2_SeekThenDecode ==
  /\ (ret.op = "SeekTo" /\ WellFormed(doc) /\ Healthy(ret.pre))
       => \A j \in ValueStarts :
            (Locates(ret.target, j) /\ ret.pre.pos < j)
              => (ret.found /\ ret.err = "nil" /\ pos = j - 1)
  /\ (ret.op = "Decode" /\ prev.op = "SeekTo" /\ prev.found /\ WellFormed(doc)
        /\ Healthy(ret.pre))
       => \A j \in ValueStarts :
            (Locates(prev.target, j) /\ prev.pos0 < j)
              => (ret.err = "nil" /\ ret.pre.pos = j - 1 /\ pos = j - 1 + Toks[j].vlen)

\* C3: SeekTo(p) returns found = true only if the document holds a value at p.
C3_FoundOnlyIfPresent ==
  (ret.op = "SeekTo" /\ ret.found /\ WellFormed(doc) /\ Healthy(ret.pre))
    => \E j \in ValueStarts : Locates(ret.target, j)

\* C4: SeekTo(p) right after SeekTo(p) returned (true, nil), with the same p
\* (the same literal arguments, or the slice the caller kept), returns
\* (true, nil) and consumes no token.
C4_SeekIdempotent ==
  (ret.op = "SeekTo" /\ prev.op = "SeekTo" /\ prev.found /\ prev.err = "nil"
     /\ (\E j \in ValueStarts : Locates(prev.target, j))
     /\ (ret.reuse \/ ret.target = prev.target))
    => (ret.found /\ ret.err = "nil" /\ pos = ret.pre.pos)

\* C5: on a well-formed document, SeekTo(p) for a value at p (p not empty)
\* whose tokens have all been consumed returns (false, nil).
C5_PassedNotFound ==
  (ret.op = "SeekTo" /\ WellFormed(doc) /\ Healthy(ret.pre) /\ Len(ret.target) > 0)
    => \A j \in ValueStarts :
         (Locates(ret.target, j) /\ ret.pre.pos >= j - 1 + Toks[j].vlen)
           => (~ret.found /\ ret.err = "nil")

\* C6: Scan returns no error when the token source reports end-of-stream.
C6_ScanEOFNil ==
  (ret.op = "Scan" /\ ret.src = "EOF") => ret.err = "nil"

\* C7: SeekTo never returns true with an error; not found at end-of-stream
\* it returns (false, nil); not found at any other error of the token
\* source it returns (false, that error).
C7_SeekOutcomes ==
  ret.op = "SeekTo" =>
    /\ ~(ret.found /\ ret.err # "nil")
    /\ (~ret.found /\ Len(ret.target) > 0) =>
         /\ SrcToken(W).err # "nil"
         /\ SrcToken(W).err = "EOF" => ret.err = "nil"
         /\ SrcToken(W).err # "EOF" => ret.err = SrcToken(W).err

C7_Witness ==
  ret.op = "SeekTo" /\ ~ret.found /\ ret.err = "invalid-char" /\ pos > ret.pre.pos

\* C8: on a well-formed document, under any interleaving of the calls,
\* Token() returns a string as a KeyString exactly when the string is an
\* object key.
C8_KeyString ==
  (ret.op = "Token" /\ ret.err = "nil" /\ ret.tok.t = "str" /\ WellFormed(doc))
    => (ret.key <=> ret.tok.role = "key")

C8_Witness ==
  /\ ret.op = "Token" /\ ret.err = "nil" /\ ret.tok.t = "str" /\ via = "mixed"
  /\ ~ret.key /\ ret.tok.s = "a" /\ prev.op = "SeekTo"

\* The Decoder t is where the Decoder is now.
SameTracker(t) ==
  /\ t.pos = pos
  /\ t.path = path
  /\ t.context = context

\* C9: after Decode has consumed a value, path and context are those that
\* consuming the value's tokens through Token() leads to.
C9_DecodeBookkeeping ==
  (ret.op = "Decode" /\ ret.err = "nil")
    => SameTracker(TokenN(ret.pre, ret.tok.vlen))

C9_Witness ==
  /\ ret.op = "Decode" /\ ret.err = "nil"
  /\ ret.tok.vlen > 1 /\ ret.pre.context = arrValue

\* The first token of element i of the array that starts at token a.
ElemStart(a, i) ==
  CHOOSE j \in (a + 1)..(a + Toks[a].vlen - 2) :
    Locates(Toks[a].vloc \o <<Idx(i)>>, j)

\* A Scan that returned, begun right before an array, with the pattern
\* of one array index of any value and callbacks that each called Decode once.
ScannedArray ==
  /\ ret.op = "Scan" /\ ret.pats = 1 /\ ~ret.over
  /\ WellFormed(doc) /\ Healthy(ret.pre)
  /\ ret.pre.pos < Len(Toks) /\ Toks[ret.pre.pos + 1].t = "["
  /\ \A k \in 1..Len(ret.fires) : ret.fires[k].ops = <<"Decode">>

\* The callbacks ran once per element of the array at token a, in order,
\* each entered right before its element.
FiresAre(a) ==
  /\ Len(ret.fires) = Toks[a].n
  /\ \A k \in 1..Len(ret.fires) : ret.fires[k].pos = ElemStart(a, k - 1) - 1

\* C10: a Scan over an array with one registration for the element position,
\* its callback decoding the element, fires once per element of the array,
\* in order, none skipped and none twice.
C10_FiresPerElement == ScannedArray => FiresAre(ret.pre.pos + 1)

\* A Scan that returned, begun right before an array, with the pattern of
\* the one literal index 1 and callbacks that each called Decode once.
ScannedIndex ==
  /\ ret.op = "Scan" /\ ret.pats = 2 /\ ~ret.over
  /\ WellFormed(doc) /\ Healthy(ret.pre)
  /\ ret.pre.pos < Len(Toks) /\ Toks[ret.pre.pos + 1].t = "["
  /\ \A k \in 1..Len(ret.fires) : ret.fires[k].ops = <<"Decode">>

\* The callback ran once, entered right before element i of the array at
\* token a, or not at all when the array has no element i.
FiresAt(a, i) ==
  IF Toks[a].n > i
  THEN Len(ret.fires) = 1 /\ ret.fires[1].pos = ElemStart(a, i) - 1
  ELSE Len(ret.fires) = 0

\* C11: a Scan over an array with one registration for the literal index 1
\* fires exactly once, entered with the tracker right before element 1, so
\* that the callback's Decode yields element 1 and not a neighbour.
C11_FiresAtIndex == ScannedIndex => FiresAt(ret.pre.pos + 1, 1)

\* C12: SeekTo with a zero-length target returns (true, nil) exactly when
\* the path is empty, which it is at the start of a document, and consumes no
\* token and leaves path and context as they were.
C12_SeekEmptyTarget ==
  (ret.op = "SeekTo" /\ Len(ret.target) = 0) =>
    /\ ret.err = "nil"
    /\ ret.found <=> Len(ret.pre.path) = 0
    /\ ret.pre.pos = 0 => ret.found
    /\ SameTracker(ret.pre)

C12_Witness ==
  /\ ret.op = "SeekTo" /\ Len(ret.target) = 0
  /\ ~ret.found /\ ret.pre.pos > 0 /\ pos < Len(Toks)

\* C13: the segments of a Path() result are those it was returned with, or
\* the caller last stored, whatever Token, SeekTo, Decode and Scan calls
\* followed, and the caller storing a segment into it leaves the Decoder's
\* path as it was.
C13_SnapshotIndependent ==
  /\ [](snap.held => snap.s.cells = snap.at)
  /\ [][(snap.wrote' /\ ~snap.wrote) => path' = path]_vars

C13_Witness ==
  /\ snap.held /\ snap.wrote /\ Len(snap.at) = 2
  /\ Len(path) = 2 /\ path[1] # snap.at[1] /\ path[2] # snap.at[2]
  /\ ret.op = "SeekTo" /\ prev.op = "Scan"

\* C14: when the json.Decoder returns an error or end-of-stream, Token()
\* returns that error and leaves path and context as they were.
C14_TokenErrorPassThrough ==
  (ret.op = "Token" /\ SrcToken(ret.pre).err # "nil") =>
    /\ ret.err = SrcToken(ret.pre).err
    /\ path = ret.pre.path
    /\ context = ret.pre.context

C14_Witness ==
  /\ ret.op = "Token" /\ ret.err = "invalid-char"
  /\ context = arrValue /\ pos > 0

\* The context c is the one the top segment of p stands for.
Coupled(p, c) ==
  /\ c = none <=> Len(p) = 0
  /\ c = arrValue <=> (Len(p) > 0 /\ p[Len(p)].kind = "idx")
  /\ c \in {objKey, objValue} <=> (Len(p) > 0 /\ p[Len(p)].kind = "key")

\* C15: on a well-formed document, after every step of Token, Decode, SeekTo
\* and Scan the context is none exactly for the empty path, arrValue exactly
\* for a top segment that is an index, objKey or objValue exactly for one
\* that is a key, and no incTop, nameTop or pop has panicked.
C15_PathContextCoupled ==
  WellFormed(doc) => (Coupled(path, context) /\ ~panic)

C15_Witness ==
  /\ WellFormed(doc) /\ via = "mixed"
  /\ ret.op = "Decode" /\ ret.err # "nil" /\ ret.pre.context = arrValue
  /\ Len(path) = 2 /\ path # ret.pre.path

\* The tokens after position p0 that leave the reader no deeper than n
\* segments: the tokens that end the subtree of a root of length n.
Exits(p0, n) == {j \in (p0 + 1)..Len(Toks) : Len(Toks[j].loc) <= n}

Least(S) == CHOOSE j \in S : \A k \in S : j <= k

\* C16: on a well-formed document, a Scan that returns no error, its root
\* of the length of the path at the call, is positioned right after the
\* first token that leaves the path no longer than the root, having consumed
\* no token after that one, and returns true exactly when a callback was
\* invoked.
C16_ScanConfined ==
  (ret.op = "Scan" /\ ret.err = "nil" /\ derr = "nil"
     /\ WellFormed(doc) /\ Healthy(ret.pre))
    => /\ Len(ret.root) = Len(ret.pre.path)
       /\ Exits(ret.pre.pos, Len(ret.root)) # {}
       /\ pos = Least(Exits(ret.pre.pos, Len(ret.root)))
       /\ ret.found <=> Len(ret.fires) > 0

\* C17: at every lookup of Scan, whatever the callbacks called, the root is
\* a prefix of the path, so that the path looked up is the path relative
\* to the root.
C17_RootIsPrefix ==
  /\ ret.op = "Scan" => ~ret.stray
  /\ \A k \in 1..Len(scans) : ~scans[k].stray

\* No two callbacks of the log fs in a row were entered at one position.
StepsForward(fs) == \A k \in 1..(Len(fs) - 1) : fs[k].pos < fs[k + 1].pos

\* C18: every iteration of Scan's loop consumes a token or ends the Scan,
\* also when the callback consumes nothing: no Scan enters a callback twice
\* at one position of the stream, which would repeat without end.
C18_ScanProgress ==
  /\ ret.op = "Scan" => StepsForward(ret.fires)
  /\ \A i \in 1..Len(scans) : StepsForward(scans[i].fires)

\* C19: after SeekTo(p...) has returned, the slice p the caller passed holds
\* the segments it held before the call.
C19_TargetUnmodified ==
  ret.op = "SeekTo" => arg = ret.target

\* A Scan that returned, with the registration for the key "a" and
\* callbacks that each decoded the key's value or called nothing.
ScannedKey ==
  /\ ret.op = "Scan" /\ ret.pats = 3 /\ ~ret.over
  /\ WellFormed(doc) /\ Healthy(ret.pre)
  /\ \A k \in 1..Len(ret.fires) : ret.fires[k].ops \in {<<>>, <<"Decode">>}

\* The occurrences of the key "a" right under the root among the tokens the
\* Scan consumed.
KeysScanned ==
  {j \in (ret.pre.pos + 1)..pos :
     Toks[j].role = "key" /\ Toks[j].loc = ret.root \o <<Key("a")>>}

\* C20: a Scan with a registration ending in the key "a" fires once per
\* occurrence of the key, entered right after the key was read, whether or
\* not the callback consumes the value, and at no other token.
C20_KeyFiresOnce ==
  ScannedKey =>
    /\ {ret.fires[k].pos : k \in 1..Len(ret.fires)} = KeysScanned
    /\ StepsForward(ret.fires)

====
